---- MODULE Spec2Model ----
(***************************************************************************)
(* schevo: ingestion of fixed-width text streams into relational tables.   *)
(* Model of src/schevo/charger.py (define_record_name, check_stream,       *)
(* break_stream, charge_stream, runner) and src/schevo/decoder.py          *)
(* (decode_record).                                                        *)
(*                                                                         *)
(* Text is modelled as sequences of one-character strings, so that         *)
(* prefixes, splitting on '#', str() and int() are computed, not assumed.  *)
(***************************************************************************)
EXTENDS Integers, Sequences, FiniteSets, TLC

VARIABLES
    fs,        \* the working directory: file name -> sequence of rows
    db,        \* the store: table name -> [cols, rows]
    pc,        \* position of the program (runner's main thread, or a function call)
    job,       \* the runner's loop state: streams left, files left, listing left
    futures,   \* units of work submitted to the pool: unit id -> state
    fn_in,     \* arguments of the call under way
    fn_out,    \* what the call has produced so far
    hist       \* observation only: what the run has done (never read by the program)

vars == <<fs, db, pc, job, futures, fn_in, fn_out, hist>>

(***************************************************************************)
(* Bounds of the model.                                                    *)
(***************************************************************************)
\* rows of the largest file split in SpecSplit
MaxSplitRows == 11
\* largest chunk size tried in SpecSplit
MaxSplitBreak == 4
\* length of the rows decoded in SpecDecode
DecodeRowLen == 4
\* rows per chunk in the runs of Spec (rows_break, 100_000 in the source)
RowsBreak == 2
\* threads of the worker pool in the runs of Spec
MaxWorkers == 2
\* runs of the pipeline, one after the other, in Spec
MaxRuns == 2
\* calls of check_stream, one after the other, in SpecSync
MaxSyncs == 3
\* length of the longest raw label named in SpecName
MaxNameLen == 4

(***************************************************************************)
(* Text helpers (Python str / int semantics on the modelled alphabet).     *)
(***************************************************************************)
Digit == <<"0", "1", "2", "3", "4", "5", "6", "7", "8", "9">>

IsDigit(c) == \E d \in 1..10 : Digit[d] = c

DigitVal(c) == (CHOOSE d \in 1..10 : Digit[d] = c) - 1

Min(a, b) == IF a < b THEN a ELSE b

\* str(n) for n >= 0
RECURSIVE str(_)
str(n) == IF n < 10 THEN <<Digit[n + 1]>> ELSE str(n \div 10) \o <<Digit[(n % 10) + 1]>>

\* the digits of a decimal literal after its optional sign
Unsigned(s) == IF Len(s) > 0 /\ s[1] \in {"+", "-"} THEN Tail(s) ELSE s

\* int(s) succeeds iff s is an optional sign and a non-empty run of digits
\* (the modelled alphabets hold no '_' and s is already stripped where it is used)
IsInt(s) == Len(Unsigned(s)) > 0 /\ \A i \in 1..Len(Unsigned(s)) : IsDigit(Unsigned(s)[i])

RECURSIVE nat(_)
nat(s) == IF Len(s) = 0 THEN 0 ELSE 10 * nat(SubSeq(s, 1, Len(s) - 1)) + DigitVal(s[Len(s)])

int(s) == IF Len(s) > 0 /\ s[1] = "-" THEN 0 - nat(Unsigned(s)) ELSE nat(Unsigned(s))

\* s.startswith(p)
startswith(s, p) == Len(p) <= Len(s) /\ SubSeq(s, 1, Len(p)) = p

\* s.rsplit(c, maxsplit=1): <<head, tail>> around the last c, or <<s>> without one
rsplit(s, c) ==
    LET at == {i \in 1..Len(s) : s[i] = c}
    IN  IF at = {} THEN <<s>>
        ELSE LET i == CHOOSE x \in at : \A y \in at : y <= x
             IN  <<SubSeq(s, 1, i - 1), SubSeq(s, i + 1, Len(s))>>

\* s.replace(c, '')
RECURSIVE remove(_, _)
remove(s, c) ==
    IF Len(s) = 0 THEN <<>>
    ELSE (IF s[1] = c THEN <<>> ELSE <<s[1]>>) \o remove(Tail(s), c)

\* open(path, 'w') ... write ... close: the file holds exactly rows
Put(dir, path, rows) == [p \in DOMAIN dir \cup {path} |-> IF p = path THEN rows ELSE dir[p]]

\* path.unlink(missing_ok=True)
Unlink(dir, path) == [p \in DOMAIN dir \ {path} |-> dir[p]]

(***************************************************************************)
(* break_stream                                                            *)
(***************************************************************************)
\* the name of chunk `suffix` of file `name`
chunk_name(name, suffix) == name \o <<"#">> \o str(suffix)

\* The loop of break_stream: rows[row_num..] are still to be read, chunk
\* `suffix` is open and holds `fou`.  Returns the directory after the loop.
RECURSIVE break_loop(_, _, _, _, _, _, _)
break_loop(dir, name, rows, row_num, suffix, fou, rows_break) ==
    IF row_num > Len(rows)
    THEN Put(dir, chunk_name(name, suffix), fou)
    ELSE IF row_num % rows_break = 0
         THEN break_loop(Put(dir, chunk_name(name, suffix), Append(fou, rows[row_num])),
                         name, rows, row_num + 1, suffix + 1, <<>>, rows_break)
         ELSE break_loop(dir, name, rows, row_num + 1, suffix,
                         Append(fou, rows[row_num]), rows_break)

\* a slip of the loop: a chunk is opened only when a row is there to write,
\* so no empty chunk is left behind
break_stream_write_no_empty(dir, name, rows_break) ==
    LET d == break_loop(dir, name, dir[name], 1, 0, <<>>, rows_break)
    IN  [p \in {q \in DOMAIN d : q \in DOMAIN dir \/ Len(d[q]) > 0} |-> d[p]]

\* the chunk files break_stream writes: the directory after its with-block
break_stream_write(dir, name, rows_break) ==
    break_loop(dir, name, dir[name], 1, 0, <<>>, rows_break)

\* the list break_stream returns (iterdir gives no order: a set)
break_stream_list(dir, name) ==
    {p \in DOMAIN dir : startswith(p, name) /\ p # name}

(***************************************************************************)
(* charge_stream: the dedup key of a row                                   *)
(***************************************************************************)
\* substream = stream.name.rsplit('#', maxsplit=1)
substream_of(name) == rsplit(name, "#")

\* a slip of the key: the name of the chunk taken for the name of the file
charge_filename_chunk(name) == name

\* filename = substream[0]
charge_filename(name) == substream_of(name)[1]

\* int(substream[-1].replace('#', '')) raises ValueError unless it is a number
charge_index_ok(name) ==
    LET sub == substream_of(name) IN IsInt(remove(sub[Len(sub)], "#"))

\* a slip of the numbering: the chunk index taken as a row offset, unscaled
charge_row_number_unscaled(name, row_num, rows_break) ==
    LET sub == substream_of(name)
    IN  row_num + int(remove(sub[Len(sub)], "#"))

\* row_number = row_num + int(substream[-1].replace('#', '')) * rows_break
charge_row_number(name, row_num, rows_break) ==
    LET sub == substream_of(name)
    IN  row_num + int(remove(sub[Len(sub)], "#")) * rows_break

(***************************************************************************)
(* SpecSplit: break_stream applied to one file of a clean directory, then  *)
(* charge_stream's row numbering applied to every chunk it returned.       *)
(***************************************************************************)
\* names of the file that is split: a plain one, and one that holds a '#'
SplitNames == {<<"a">>, <<"a", "#", "7">>}

\* row n of the split file is the text of n, so a row tells where it came from
SplitRows(n) == [i \in 1..n |-> str(i)]

\* what lies outside of a specification is held still at these values
NoRunner == db = <<>> /\ job = <<>> /\ futures = <<>> /\ hist = <<>>

InitSplit ==
    /\ \E name \in SplitNames, n \in 0..MaxSplitRows, k \in 1..MaxSplitBreak :
          /\ fs = Put(<<>>, name, SplitRows(n))
          /\ fn_in = [stream |-> name, rows_break |-> k]
    /\ fn_out = [chunks |-> {}, charged |-> {}]
    /\ pc = "break"
    /\ NoRunner

\* substreams = break_stream(stream, rows_break=k)
SplitBreak ==
    /\ pc = "break"
    /\ fs' = break_stream_write(fs, fn_in.stream, fn_in.rows_break)
    /\ fn_out' = [fn_out EXCEPT !.chunks = break_stream_list(fs', fn_in.stream)]
    /\ pc' = "charge"
    /\ UNCHANGED <<db, job, futures, fn_in, hist>>

\* the keys charge_stream gives the rows of chunk p
charge_keys(dir, p, rows_break) ==
    IF ~charge_index_ok(p)
    THEN {[chunk |-> p, local |-> 0, filename |-> <<>>, row_number |-> 0, row |-> <<"ValueError">>]}
    ELSE {[chunk |-> p, local |-> j, filename |-> charge_filename(p),
           row_number |-> charge_row_number(p, j, rows_break), row |-> dir[p][j]]
          : j \in 1..Len(dir[p])}

\* charge_stream(p, rows_break=k) over one returned chunk
SplitCharge ==
    /\ pc = "charge"
    /\ \E p \in fn_out.chunks :
          /\ \A r \in fn_out.charged : r.chunk # p
          /\ Len(fs[p]) > 0
          /\ fn_out' = [fn_out EXCEPT !.charged = @ \cup charge_keys(fs, p, fn_in.rows_break)]
    /\ UNCHANGED <<fs, db, pc, job, futures, fn_in, hist>>

\* every chunk that holds a row has been charged
SplitDone ==
    /\ pc = "charge"
    /\ \A p \in fn_out.chunks : Len(fs[p]) > 0 => \E r \in fn_out.charged : r.chunk = p
    /\ pc' = "done"
    /\ UNCHANGED <<fs, db, job, futures, fn_in, fn_out, hist>>

NextSplit == SplitBreak \/ SplitCharge \/ SplitDone

SpecSplit == InitSplit /\ [][NextSplit]_vars

(***************************************************************************)
(* C3: for every file of N >= 0 rows and chunk size k >= 1, original row n *)
(* lies in chunk '<name>#i' at local position j with i*k + j = n, in file  *)
(* order; the row number charge_stream computes from the chunk's name and  *)
(* the local line number is n, and the numbers computed are exactly 1..N,  *)
(* each once.                                                              *)
(***************************************************************************)
SplitRoundTrip ==
    pc \in {"charge", "done"} =>
        LET name == fn_in.stream
            k    == fn_in.rows_break
            rows == fs[name]
            N    == Len(rows)
        IN  /\ \A n \in 1..N :
                  \E i \in 0..N, j \in 1..k :
                      /\ i * k + j = n
                      /\ chunk_name(name, i) \in fn_out.chunks
                      /\ j <= Len(fs[chunk_name(name, i)])
                      /\ fs[chunk_name(name, i)][j] = rows[n]
            /\ \A r \in fn_out.charged :
                  /\ r.filename = name
                  /\ r.row_number \in 1..N
                  /\ r.row = rows[r.row_number]
                  /\ r.chunk = chunk_name(name, (r.row_number - r.local) \div k)
                  /\ r.row_number = ((r.row_number - r.local) \div k) * k + r.local
            /\ \A r1, r2 \in fn_out.charged :
                  r1.row_number = r2.row_number => r1 = r2
            /\ pc = "done" =>
                  /\ {r.row_number : r \in fn_out.charged} = 1..N
                  /\ Cardinality(fn_out.charged) = N

\* a file of several chunks, the last of them partial, has been renumbered
SplitRoundTripWitness ==
    /\ pc = "done"
    /\ fn_in.rows_break > 1
    /\ Len(fs[fn_in.stream]) > 2 * fn_in.rows_break
    /\ Len(fs[fn_in.stream]) % fn_in.rows_break # 0
    /\ \E r \in fn_out.charged : r.local > 1 /\ r.row_number > 2 * fn_in.rows_break

(***************************************************************************)
(* C20: break_stream over a file of N rows with chunk size k creates       *)
(* exactly floor(N/k) + 1 chunk files, of indices 0..floor(N/k); every     *)
(* chunk below the highest index holds exactly k rows, and the chunk of    *)
(* the highest index is empty exactly when k divides N (N = 0 included).   *)
(***************************************************************************)
SplitChunkCount ==
    pc \in {"charge", "done"} =>
        LET name    == fn_in.stream
            k       == fn_in.rows_break
            N       == Len(fs[name])
            created == DOMAIN fs \ {name}
        IN  /\ Cardinality(created) = (N \div k) + 1
            /\ created = {chunk_name(name, i) : i \in 0..(N \div k)}
            /\ \A i \in 0..((N \div k) - 1) : Len(fs[chunk_name(name, i)]) = k
            /\ Len(fs[chunk_name(name, N \div k)]) = 0 <=> N % k = 0
            /\ Len(fs[chunk_name(name, N \div k)]) = N % k

\* a file of two full chunks has been split: its third chunk is empty
SplitChunkCountWitness ==
    /\ pc = "charge"
    /\ fn_in.rows_break > 1
    /\ Len(fs[fn_in.stream]) = 2 * fn_in.rows_break
    /\ chunk_name(fn_in.stream, 2) \in DOMAIN fs
    /\ fs[chunk_name(fn_in.stream, 2)] = <<>>
    /\ Len(fs[chunk_name(fn_in.stream, 1)]) = fn_in.rows_break

(***************************************************************************)
(* decode_record (decoder.py)                                              *)
(*                                                                         *)
(* A decoded value is [kind, s, n]: kind "str" carries its text in s; the  *)
(* typed kinds carry their numbers in n (int: <<v>>, decimal: <<unscaled,  *)
(* exponent>>, date: <<Y, m, d>>, time: <<H, M, S>>, datetime: all six);   *)
(* kind "None" is Python's None and kind "ValueError" a raised exception.  *)
(***************************************************************************)
None == [kind |-> "None", s |-> <<>>, n |-> <<>>]

ValueError == [kind |-> "ValueError", s |-> <<>>, n |-> <<>>]

Str(s) == [kind |-> "str", s |-> s, n |-> <<>>]

Typed(kind, n) == [kind |-> kind, s |-> <<>>, n |-> n]

\* field.get('format') of a field that gives none
NoFormat == <<"<absent>">>

Whitespace == {" ", "\n"}

\* s.strip(chars)
RECURSIVE lstrip(_, _)
lstrip(s, chars) == IF Len(s) > 0 /\ s[1] \in chars THEN lstrip(Tail(s), chars) ELSE s

RECURSIVE rstrip(_, _)
rstrip(s, chars) ==
    IF Len(s) > 0 /\ s[Len(s)] \in chars THEN rstrip(SubSeq(s, 1, Len(s) - 1), chars) ELSE s

strip(s, chars) == rstrip(lstrip(s, chars), chars)

\* record[begin - 1 : end] for begin >= 1
slice(record, begin, end) == SubSeq(record, begin, Min(end, Len(record)))

\* The alternatives of a strptime directive, in the order of its regular
\* expression (_strptime.TimeRE): each is a length and a test of the text.
\*   Y \d\d\d\d   m 1[0-2]|0[1-9]|[1-9]   d 3[0-1]|[1-2]\d|0[1-9]|[1-9]| [1-9]
\*   H 2[0-3]|[0-1]\d|\d   M [0-5]\d|\d   S 6[0-1]|[0-5]\d|\d
In(c, lo, hi) == IsDigit(c) /\ DigitVal(c) >= lo /\ DigitVal(c) <= hi

directive_alts(d) ==
    CASE d = "Y" -> <<4>>
      [] d = "m" -> <<2, 2, 1>>
      [] d = "d" -> <<2, 2, 2, 1, 2>>
      [] d = "H" -> <<2, 2, 1>>
      [] d = "M" -> <<2, 1>>
      [] d = "S" -> <<2, 2, 1>>

directive_ok(d, a, t) ==
    CASE d = "Y" -> \A i \in 1..4 : IsDigit(t[i])
      [] d = "m" -> (CASE a = 1 -> t[1] = "1" /\ In(t[2], 0, 2)
                       [] a = 2 -> t[1] = "0" /\ In(t[2], 1, 9)
                       [] a = 3 -> In(t[1], 1, 9))
      [] d = "d" -> (CASE a = 1 -> t[1] = "3" /\ In(t[2], 0, 1)
                       [] a = 2 -> In(t[1], 1, 2) /\ IsDigit(t[2])
                       [] a = 3 -> t[1] = "0" /\ In(t[2], 1, 9)
                       [] a = 4 -> In(t[1], 1, 9)
                       [] a = 5 -> t[1] = " " /\ In(t[2], 1, 9))
      [] d = "H" -> (CASE a = 1 -> t[1] = "2" /\ In(t[2], 0, 3)
                       [] a = 2 -> In(t[1], 0, 1) /\ IsDigit(t[2])
                       [] a = 3 -> IsDigit(t[1]))
      [] d = "M" -> (CASE a = 1 -> In(t[1], 0, 5) /\ IsDigit(t[2])
                       [] a = 2 -> IsDigit(t[1]))
      [] d = "S" -> (CASE a = 1 -> t[1] = "6" /\ In(t[2], 0, 1)
                       [] a = 2 -> In(t[1], 0, 5) /\ IsDigit(t[2])
                       [] a = 3 -> IsDigit(t[1]))

\* format_regex.match(data_string): leftmost alternative first, backtracking.
\* dirs is the format as its sequence of directives; alternative a of the
\* first directive is tried at position pos.
RECURSIVE re_match(_, _, _, _)
re_match(s, pos, dirs, a) ==
    IF Len(dirs) = 0 THEN [ok |-> TRUE, end |-> pos, found |-> <<>>]
    ELSE IF a > Len(directive_alts(Head(dirs))) THEN [ok |-> FALSE, end |-> pos, found |-> <<>>]
    ELSE LET n == directive_alts(Head(dirs))[a]
             t == SubSeq(s, pos, pos + n - 1)
         IN  IF pos + n - 1 <= Len(s) /\ directive_ok(Head(dirs), a, t)
             THEN LET rest == re_match(s, pos + n, Tail(dirs), 1)
                  IN  IF rest.ok
                      THEN [rest EXCEPT !.found = <<nat(remove(t, " "))>> \o @]
                      ELSE re_match(s, pos, dirs, a + 1)
             ELSE re_match(s, pos, dirs, a + 1)

\* the directives of a format string "%Y%m%d" (formats are runs of directives)
format_directives(format) == [i \in 1..(Len(format) \div 2) |-> format[2 * i]]

IsLeap(y) == y % 4 = 0 /\ (y % 100 # 0 \/ y % 400 = 0)

DaysIn(y, m) ==
    IF m = 2 THEN (IF IsLeap(y) THEN 29 ELSE 28)
    ELSE IF m \in {4, 6, 9, 11} THEN 30 ELSE 31

\* the value found for directive d, or the default of datetime.strptime
found_or(dirs, found, d, default) ==
    IF \E i \in 1..Len(dirs) : dirs[i] = d
    THEN found[CHOOSE i \in 1..Len(dirs) : dirs[i] = d /\ \A j \in (i + 1)..Len(dirs) : dirs[j] # d]
    ELSE default

\* datetime.strptime(value, format): the six numbers, or ValueError
strptime(value, format) ==
    LET dirs == format_directives(format)
        m    == re_match(value, 1, dirs, 1)
    IN  IF ~m.ok \/ m.end # Len(value) + 1 THEN ValueError
        ELSE LET Y  == found_or(dirs, m.found, "Y", 1900)
                 mo == found_or(dirs, m.found, "m", 1)
                 d  == found_or(dirs, m.found, "d", 1)
                 H  == found_or(dirs, m.found, "H", 0)
                 M  == found_or(dirs, m.found, "M", 0)
                 S  == found_or(dirs, m.found, "S", 0)
             IN  IF Y < 1 \/ S > 59 \/ d > DaysIn(Y, mo) THEN ValueError
                 ELSE Typed("datetime", <<Y, mo, d, H, M, S>>)

\* field.get('format', default)
format_of(field, default) == IF field.format = NoFormat THEN default ELSE field.format

\* Decimal(value + format): a signed run of digits and the exponent 'e-<n>'
decimal_of(value, format) ==
    IF IsInt(value) /\ Len(format) > 1 /\ format[1] = "e" /\ IsInt(Tail(format))
    THEN Typed("decimal", <<int(value), int(Tail(format))>>)
    ELSE ValueError

\* a slip of the guard: only the empty text counts as no date
not_strip_zeros_empty_only(value) == Len(value) = 0

\* not value.strip('0'): the text is empty or holds nothing but '0'
not_strip_zeros(value) == Len(strip(value, {"0"})) = 0

\* the match statement of decode_record: the value after coercion
coerce(field, value) ==
    LET type == field.type
    IN  IF type \in {"datetime", "date", "time"} /\ not_strip_zeros(value) THEN None
        ELSE IF type = "datetime" /\ Len(value) > 0
        THEN strptime(value, format_of(field, <<"%", "Y", "%", "m", "%", "d", "%", "H", "%", "M", "%", "S">>))
        ELSE IF type = "date" /\ Len(value) > 0
        THEN LET t == strptime(value, format_of(field, <<"%", "Y", "%", "m", "%", "d">>))
             IN  IF t = ValueError THEN t ELSE Typed("date", SubSeq(t.n, 1, 3))
        ELSE IF type = "time" /\ Len(value) > 0
        THEN LET t == strptime(value, format_of(field, <<"%", "H", "%", "M", "%", "S">>))
             IN  IF t = ValueError THEN t ELSE Typed("time", SubSeq(t.n, 4, 6))
        ELSE IF type = "integer" /\ Len(value) > 0
        THEN (IF IsInt(value) THEN Typed("int", <<int(value)>>) ELSE ValueError)
        ELSE IF type = "decimal" /\ Len(value) > 0
        THEN decimal_of(value, format_of(field, <<"e", "-", "2">>))
        ELSE Str(value)

\* res[key] = value if value and isinstance(value, str) else None
stored(value) == IF value.kind = "str" /\ Len(value.s) > 0 THEN value ELSE None

\* the value of one field of the row before the final assignment
field_value(record, field) == coerce(field, strip(slice(record, field.begin, field.end), Whitespace))

\* decode_record(record, config): config is the layout as the sequence of its
\* fields [key, begin, end, type, format] in dictionary order, <<>> for a
\* missing or empty one.  Returns None, ValueError (raised), or
\* [kind |-> "dict", keys, values].
decode_record(record, config) ==
    IF Len(config) = 0 THEN None
    ELSE IF \E i \in 1..Len(config) : field_value(record, config[i]) = ValueError
    THEN ValueError
    ELSE [kind   |-> "dict",
          keys   |-> [i \in 1..Len(config) |-> config[i].key],
          values |-> [i \in 1..Len(config) |-> stored(field_value(record, config[i]))]]

(***************************************************************************)
(* SpecDecode: decode_record applied to one row and one layout.            *)
(***************************************************************************)
\* the characters rows are drawn from
DecodeAlphabet == {" ", "0", "1", "3", "a", "-"}

RECURSIVE Texts(_)
Texts(n) == IF n = 0 THEN {<<>>} ELSE {Append(t, c) : t \in Texts(n - 1), c \in DecodeAlphabet}

\* the rows decoded: every text of DecodeRowLen characters, and the row "abc1"
DecodeRows == Texts(DecodeRowLen) \cup {<<"a", "b", "c", "1">>}

Field(key, begin, end, type, format) ==
    [key |-> key, begin |-> begin, end |-> end, type |-> type, format |-> format]

\* the layouts decoded against; the first is {x: [1,3] string, y: [4,4] integer}
DecodeLayouts ==
    { <<Field(<<"x">>, 1, 3, "string", NoFormat), Field(<<"y">>, 4, 4, "integer", NoFormat)>>,
      <<Field(<<"d">>, 1, 4, "date", <<"%", "m", "%", "d">>)>>,
      <<Field(<<"d">>, 1, 4, "date", <<"%", "Y">>)>>,
      <<Field(<<"t">>, 1, 4, "time", <<"%", "H", "%", "M">>)>>,
      <<Field(<<"t">>, 1, 3, "time", NoFormat), Field(<<"s">>, 4, 4, "<absent>", NoFormat)>>,
      <<Field(<<"ts">>, 1, 4, "datetime", <<"%", "d", "%", "H">>)>>,
      <<Field(<<"n">>, 1, 4, "decimal", NoFormat)>>,
      <<Field(<<"n">>, 1, 2, "integer", NoFormat), Field(<<"m">>, 3, 4, "decimal", <<"e", "-", "1">>)>>,
      <<>> }

InitDecode ==
    /\ \E record \in DecodeRows, config \in DecodeLayouts :
          fn_in = [record |-> record, config |-> config]
    /\ fn_out = [kind |-> "pending"]
    /\ pc = "decode"
    /\ fs = <<>>
    /\ NoRunner

\* record = decode_record(row, config)
Decode ==
    /\ pc = "decode"
    /\ fn_out' = decode_record(fn_in.record, fn_in.config)
    /\ pc' = "decoded"
    /\ UNCHANGED <<fs, db, job, futures, fn_in, hist>>

NextDecode == Decode

SpecDecode == InitDecode /\ [][NextDecode]_vars

TypedKinds == {"int", "decimal", "date", "time", "datetime"}

(***************************************************************************)
(* C10: a field of type integer, decimal, date, time or datetime whose     *)
(* trimmed slice is non-empty and parses (and, for the date kinds, is not  *)
(* all zeros) appears in the decoded record as the parsed typed value,     *)
(* never as null.                                                          *)
(***************************************************************************)
DecodeKeepsTyped ==
    (pc = "decoded" /\ fn_out.kind = "dict") =>
        \A i \in 1..Len(fn_in.config) :
            LET parsed == field_value(fn_in.record, fn_in.config[i])
            IN  parsed.kind \in TypedKinds =>
                    /\ fn_out.values[i] # None
                    /\ fn_out.values[i] = parsed

\* the text of field i of the row under decode: the slice, trimmed
trimmed(i) ==
    strip(slice(fn_in.record, fn_in.config[i].begin, fn_in.config[i].end), Whitespace)

(***************************************************************************)
(* C11: a field of type date, time or datetime whose trimmed slice is      *)
(* empty or holds only '0' characters decodes to null and raises no parse  *)
(* error, whatever the format of the field.                                *)
(***************************************************************************)
ZeroDateIsNull ==
    pc = "decoded" =>
        \A i \in 1..Len(fn_in.config) :
            (/\ fn_in.config[i].type \in {"date", "time", "datetime"}
             /\ \A j \in 1..Len(trimmed(i)) : trimmed(i)[j] = "0")
            => /\ field_value(fn_in.record, fn_in.config[i]) = None
               /\ (Len(fn_in.config) = 1 => fn_out.kind = "dict")
               /\ (fn_out.kind = "dict" => fn_out.values[i] = None)

\* a date field that holds zeros its format could not parse has been decoded
ZeroDateIsNullWitness ==
    /\ pc = "decoded"
    /\ fn_out.kind = "dict"
    /\ \E i \in 1..Len(fn_in.config) :
          /\ fn_in.config[i].type = "date"
          /\ Len(trimmed(i)) > 1
          /\ \A j \in 1..Len(trimmed(i)) : trimmed(i)[j] = "0"
          /\ strptime(trimmed(i), fn_in.config[i].format) = ValueError
          /\ fn_out.values[i] = None

(***************************************************************************)
(* define_record_name, define_record_type (charger.py)                     *)
(***************************************************************************)
UpperCase == <<"A", "B", "C", "D", "E", "F", "G", "H", "I", "J", "K", "L", "M",
               "N", "O", "P", "Q", "R", "S", "T", "U", "V", "W", "X", "Y", "Z">>

LowerCase == <<"a", "b", "c", "d", "e", "f", "g", "h", "i", "j", "k", "l", "m",
               "n", "o", "p", "q", "r", "s", "t", "u", "v", "w", "x", "y", "z">>

IsLower(c) == \E i \in 1..26 : LowerCase[i] = c

IsUpper(c) == \E i \in 1..26 : UpperCase[i] = c

\* s.lower()
lower_char(c) == IF IsUpper(c) THEN LowerCase[CHOOSE i \in 1..26 : UpperCase[i] = c] ELSE c

lower(s) == [i \in 1..Len(s) |-> lower_char(s[i])]

\* re.sub(r'[^a-z0-9]+', '_', s): every run of other characters becomes one '_'
RECURSIVE sub_runs(_, _)
sub_runs(s, in_run) ==
    IF Len(s) = 0 THEN <<>>
    ELSE IF IsLower(s[1]) \/ IsDigit(s[1]) THEN <<s[1]>> \o sub_runs(Tail(s), FALSE)
    ELSE (IF in_run THEN <<>> ELSE <<"_">>) \o sub_runs(Tail(s), TRUE)

\* a slip of the order: the underscores are stripped before the substitution
define_record_name_strip_first(record_name) ==
    LET name == sub_runs(strip(lower(record_name), {"_"}), FALSE)
    IN  IF Len(name) > 0 /\ IsDigit(name[1]) THEN <<"c", "_">> \o name ELSE name

\* define_record_name(record_name)
define_record_name(record_name) ==
    LET name == strip(sub_runs(lower(record_name), FALSE), {"_"})
    IN  IF Len(name) > 0 /\ IsDigit(name[1]) THEN <<"c", "_">> \o name ELSE name

\* table_name = define_record_name(f'{stream_name.lower()}_{record_code.lower()}')
table_name_of(stream_name, record_code) ==
    define_record_name(lower(stream_name) \o <<"_">> \o lower(record_code))

\* record.get('type', 'string')
type_of(field) == IF field.type = "<absent>" THEN "string" ELSE field.type

\* define_record_type(record): the SQL type as [type, len, scale]
define_record_type(field) ==
    CASE type_of(field) = "decimal" ->
            [type |-> "NUMERIC", len |-> field.end - field.begin + 1,
             scale |-> int(rsplit(format_of(field, <<"e", "-", "2">>), "-")[2])]
      [] type_of(field) = "string" ->
            [type |-> "VARCHAR", len |-> field.end - field.begin + 1, scale |-> 0]
      [] type_of(field) = "integer"  -> [type |-> "INTEGER", len |-> 0, scale |-> 0]
      [] type_of(field) = "date"     -> [type |-> "DATE", len |-> 0, scale |-> 0]
      [] type_of(field) = "time"     -> [type |-> "TIME", len |-> 0, scale |-> 0]
      [] type_of(field) = "datetime" -> [type |-> "TIMESTAMP", len |-> 0, scale |-> 0]

(***************************************************************************)
(* The store, as the statements of constants.py use it.  A table is        *)
(* [cols, rows]: cols maps a column name to its SQL type, rows maps a      *)
(* (sys_filename, sys_row_number) pair to the number of rows that hold it. *)
(***************************************************************************)
\* the system columns of TEMPLATE_QUERY_CREATE_STREAM
SysCols ==
    [c \in {<<"sys_filename">>, <<"sys_row_number">>, <<"sys_ins_date">>} |->
        CASE c = <<"sys_filename">>   -> [type |-> "VARCHAR", len |-> 255, scale |-> 0]
          [] c = <<"sys_row_number">> -> [type |-> "INTEGER", len |-> 0, scale |-> 0]
          [] c = <<"sys_ins_date">>   -> [type |-> "TIMESTAMP", len |-> 0, scale |-> 0]]

\* an identifier interpolated unquoted into a statement: the store folds it to
\* lower case, and rejects the statement unless it is a letter or '_' followed
\* by letters, digits and '_' (a system column's name is held as one symbol)
sql_ident_ok(name) ==
    \/ name \in DOMAIN SysCols
    \/ /\ Len(name) > 0
       /\ IsLower(lower_char(name[1])) \/ name[1] = "_"
       /\ \A i \in 1..Len(name) :
             IsLower(lower_char(name[i])) \/ IsDigit(name[i]) \/ name[i] = "_"

sql_ident(name) == lower(name)

\* QUERY_GET_TABLES
table_exists(store, table) == table \in DOMAIN store

\* the lookup finds no row whatever the table holds
chk_duplicate_never(store, table, filename, row_number) == FALSE

\* QUERY_CHK_DUPLICATE: a row of the table holds the key
chk_duplicate(store, table, filename, row_number) ==
    <<filename, row_number>> \in DOMAIN store[table].rows

\* the store accepts every key: no uniqueness constraint on the table
uq_absent(rows, filename, row_number) == TRUE

\* CONSTRAINT uq_<stream>_filename_row_number UNIQUE (sys_filename, sys_row_number)
\* and the unique index on the same pair: the store accepts only a new key
uq_filename_row_number(rows, filename, row_number) ==
    <<filename, row_number>> \notin DOMAIN rows

\* CONSTRAINT chk_<stream>_row_number CHECK (sys_row_number > 0)
chk_row_number(row_number) == row_number > 0

\* TEMPLATE_QUERY_INSERT_STREAM_RECORD: does the store accept the row
insert_ok(store, table, columns, filename, row_number) ==
    /\ table_exists(store, table)
    /\ \A i \in 1..Len(columns) :
          sql_ident_ok(columns[i]) /\ sql_ident(columns[i]) \in DOMAIN store[table].cols
    /\ uq_filename_row_number(store[table].rows, filename, row_number)
    /\ chk_row_number(row_number)

\* the store after the insert
insert_row(store, table, filename, row_number) ==
    LET key  == <<filename, row_number>>
        rows == store[table].rows
    IN  [store EXCEPT ![table].rows =
            [k \in DOMAIN rows \cup {key} |->
                IF k \in DOMAIN rows THEN rows[k] + (IF k = key THEN 1 ELSE 0) ELSE 1]]

\* the number of rows of a table
RECURSIVE SumOver(_, _)
SumOver(f, S) ==
    IF S = {} THEN 0 ELSE LET k == CHOOSE x \in S : TRUE IN f[k] + SumOver(f, S \ {k})

row_count(store, table) == SumOver(store[table].rows, DOMAIN store[table].rows)

(***************************************************************************)
(* check_stream (charger.py): one record code of the stream's layout       *)
(***************************************************************************)
\* TEMPLATE_QUERY_CREATE_STREAM: [ok, cols], the columns of the new table; not
\* ok when the store rejects the statement (a name that is none, or given twice)
create_cols(columns_config) ==
    LET names == [i \in 1..Len(columns_config) |-> define_record_name(columns_config[i].key)]
    IN  IF \/ \E i \in 1..Len(names) : ~sql_ident_ok(names[i])
           \/ \E i, j \in 1..Len(names) : i # j /\ names[i] = names[j]
        THEN [ok |-> FALSE, cols |-> SysCols]
        ELSE [ok |-> TRUE,
              cols |-> [c \in DOMAIN SysCols \cup {names[i] : i \in 1..Len(names)} |->
                          IF c \in DOMAIN SysCols THEN SysCols[c]
                          ELSE define_record_type(
                                  columns_config[CHOOSE i \in 1..Len(names) : names[i] = c])]]

\* The loop over the fields of an existing table (charger.py:72-84).  columns
\* is the result of QUERY_GET_COLUMNS fetched before the loop, cols the
\* table's columns as the statements issued so far have left them.  Returns
\* [ok, cols, ddl].
RECURSIVE alter_loop(_, _, _, _, _)
alter_loop(columns, cols, columns_config, i, ddl) ==
    IF i > Len(columns_config) THEN [ok |-> TRUE, cols |-> cols, ddl |-> ddl]
    ELSE LET key   == columns_config[i].key
             value == columns_config[i]
             type  == define_record_type(value)
         IN  IF key \notin DOMAIN columns
             THEN \* TEMPLATE_QUERY_ADD_STREAM_RECORD
                  LET stmt == [op |-> "ADD", record |-> key, type |-> type]
                  IN  IF sql_ident_ok(key) /\ sql_ident(key) \notin DOMAIN cols
                      THEN alter_loop(columns,
                                      [c \in DOMAIN cols \cup {sql_ident(key)} |->
                                          IF c = sql_ident(key) THEN type ELSE cols[c]],
                                      columns_config, i + 1, Append(ddl, stmt))
                      ELSE [ok |-> FALSE, cols |-> cols, ddl |-> Append(ddl, stmt)]
             ELSE IF columns[key].type = "VARCHAR"
                     /\ columns[key].len < value.end - value.begin + 1
             THEN \* TEMPLATE_QUERY_ALTER_STREAM_RECORD
                  LET stmt == [op |-> "ALTER", record |-> key, type |-> type]
                  IN  IF type.type = "VARCHAR"
                      THEN alter_loop(columns, [cols EXCEPT ![key] = type],
                                      columns_config, i + 1, Append(ddl, stmt))
                      ELSE \* no automatic cast from VARCHAR: the store rejects it
                           [ok |-> FALSE, cols |-> cols, ddl |-> Append(ddl, stmt)]
             ELSE alter_loop(columns, cols, columns_config, i + 1, ddl)

\* the body of check_stream's loop for one record code: [ok, store, ddl]
check_table(store, stream_name, record_code, columns_config) ==
    LET table == table_name_of(stream_name, record_code)
    IN  IF table_exists(store, table)
        THEN LET r == alter_loop(store[table].cols, store[table].cols, columns_config, 1, <<>>)
             IN  [ok |-> r.ok, store |-> [store EXCEPT ![table].cols = r.cols], ddl |-> r.ddl]
        ELSE LET made == create_cols(columns_config)
                 stmt == [op |-> "CREATE", record |-> table, type |-> SysCols[<<"sys_filename">>]]
             IN  IF ~made.ok \/ ~sql_ident_ok(table)
                 THEN [ok |-> FALSE, store |-> store, ddl |-> <<stmt>>]
                 ELSE [ok |-> TRUE,
                       store |-> [t \in DOMAIN store \cup {table} |->
                                    IF t = table THEN [cols |-> made.cols, rows |-> <<>>]
                                    ELSE store[t]],
                       ddl |-> <<stmt>>]

(***************************************************************************)
(* The run: configuration and input files.                                 *)
(***************************************************************************)
StreamS == <<"s">>
StreamT == <<"t">>

FileA  == <<"a">>
FileAB == <<"a", "b">>
FileB  == <<"b">>
\* a chunk file an interrupted earlier run left behind
FileLeft == <<"a", "#", "7">>

\* a row of record code A that decodes, one whose integer field does not
\* parse, and one whose record code Z has no layout
RowOK   == <<"A", "1">>
RowBad  == <<"A", "a">>
RowSkip == <<"Z", "1">>

\* schevo.json: per stream the names its filename pattern matches, the span of
\* the record code and the layout of each record code
Config ==
    [s \in {StreamS, StreamT} |->
        [filename    |-> IF s = StreamS THEN {FileA, FileAB} ELSE {FileB},
         record_code |-> <<1, 1>>,
         records     |-> (<<"A">> :> <<Field(<<"x">>, 2, 2, "integer", NoFormat)>>)]]

\* the working directories a run starts from
Directories ==
    { (FileA :> <<RowOK, RowSkip, RowOK>>) @@ (FileB :> <<RowOK, RowBad>>),
      (FileA :> <<RowOK>>) @@ (FileAB :> <<RowOK, RowOK>>),
      (FileA :> <<RowOK>>) @@ (FileLeft :> <<RowOK>>),
      (FileA :> <<RowOK, RowSkip, RowOK>>) @@ (FileB :> <<RowOK>>) }

\* the files of the directory that some stream's pattern matches
InputFiles(dir) == {f \in DOMAIN dir : \E s \in DOMAIN Config : f \in Config[s].filename}

\* the orders in which iterdir may give the files of S
Orders(S) == {q \in [1..Cardinality(S) -> S] : \A i, j \in 1..Cardinality(S) : q[i] = q[j] => i = j}

\* decode_config: from the matched files in iterdir order, the streams in the
\* order of their first file, and each stream's files in order
RECURSIVE decode_config(_, _)
decode_config(listing, res) ==
    IF Len(listing) = 0 THEN res
    ELSE LET fin == Head(listing)
             s   == CHOOSE x \in DOMAIN Config : fin \in Config[x].filename
         IN  decode_config(Tail(listing),
                IF s \in DOMAIN res.files
                THEN [res EXCEPT !.files[s] = Append(@, fin)]
                ELSE [order |-> Append(res.order, s),
                      files |-> [x \in DOMAIN res.files \cup {s} |->
                                    IF x = s THEN <<fin>> ELSE res.files[x]]])

\* config['config'].get(record_code)
layout_of(stream_name, record_code) ==
    IF record_code \in DOMAIN Config[stream_name].records
    THEN Config[stream_name].records[record_code]
    ELSE <<>>

\* the record codes of a stream's layout, in dictionary order
codes_of(stream_name) == <<<<"A">>>>

(***************************************************************************)
(* runner (charger.py): the main thread                                    *)
(***************************************************************************)
Finished == {"done", "failed"}

\* the units of work a worker thread is running
Running(futs) == {u \in DOMAIN futs : futs[u].st = "run"}

\* a slip of the loop: the files of a stream are split and submitted without
\* check_stream having been called for it
enter_stream_unchecked(j) == "break"

\* where the main thread stands on entering the body of the loop over streams:
\* in check_stream(stream_name, config['config'])
enter_stream(j) == "check"

\* the position at which the loop over the files of a stream, or over the
\* streams, goes on once the listing of a file has been submitted
next_file(j) ==
    IF Len(j.files) > 1 THEN [pc |-> "break", job |-> [j EXCEPT !.files = Tail(@)]]
    ELSE IF Len(j.streams) > 1
    THEN [pc  |-> enter_stream(j),
          job |-> [j EXCEPT !.streams = Tail(@),
                            !.files = j.arg[j.streams[2]],
                            !.codes = codes_of(j.streams[2])]]
    ELSE [pc |-> "wait", job |-> [j EXCEPT !.streams = <<>>, !.files = <<>>]]


\* runner(decode_config(PATH_RES)): a new executor, the first stream entered
StartRun ==
    /\ pc \in {"idle", "returned", "raised"}
    /\ hist.run < MaxRuns
    /\ \E listing \in Orders(InputFiles(fs)) :
          LET arg == decode_config(listing, [order |-> <<>>, files |-> <<>>])
              j   == [arg |-> arg.files, streams |-> arg.order, files |-> <<>>,
                      codes |-> <<>>, ret |-> {}, listing |-> {}, exc |-> FALSE]
          IN  IF Len(arg.order) = 0
              THEN job' = j /\ pc' = "wait"
              ELSE /\ job' = [j EXCEPT !.files = arg.files[arg.order[1]],
                                       !.codes = codes_of(arg.order[1])]
                   /\ pc' = enter_stream(j)
    /\ futures' = <<>>
    /\ hist' = [run |-> hist.run + 1, created |-> {}, synced |-> {}, inserted |-> FALSE,
                start |-> [fs |-> fs, db |-> db],
                first |-> IF hist.run = 0 THEN fs ELSE hist.first]
    /\ UNCHANGED <<fs, db, fn_in, fn_out>>

\* check_stream: one turn of its loop over the record codes; a statement the
\* store rejects raises out of runner's loop
CheckTable ==
    /\ pc = "check"
    /\ LET s == Head(job.streams)
           r == check_table(db, s, Head(job.codes), layout_of(s, Head(job.codes)))
       IN  IF r.ok
           THEN /\ db' = r.store
                /\ job' = [job EXCEPT !.codes = Tail(@)]
                /\ pc' = IF Len(job.codes) > 1 THEN "check" ELSE "break"
                /\ hist' = [hist EXCEPT !.synced =
                               IF Len(job.codes) > 1 THEN @ ELSE @ \cup {s}]
           ELSE /\ job' = [job EXCEPT !.exc = TRUE]
                /\ pc' = "wait"
                /\ UNCHANGED <<db, hist>>
    /\ UNCHANGED <<fs, futures, fn_in, fn_out>>

\* break_stream, up to the end of its with-block: the chunk files are written
BreakWrite ==
    /\ pc = "break"
    /\ Head(job.files) \in DOMAIN fs
    /\ fs' = break_stream_write(fs, Head(job.files), RowsBreak)
    /\ hist' = [hist EXCEPT !.created =
                   DOMAIN break_stream_write(Put(<<>>, Head(job.files), fs[Head(job.files)]),
                                             Head(job.files), RowsBreak) \ {Head(job.files)}]
    /\ pc' = "list"
    /\ UNCHANGED <<db, job, futures, fn_in, fn_out>>

\* open(stream) of a file that is gone: FileNotFoundError raises out of the loop
BreakMissing ==
    /\ pc = "break"
    /\ Head(job.files) \notin DOMAIN fs
    /\ job' = [job EXCEPT !.exc = TRUE]
    /\ pc' = "wait"
    /\ UNCHANGED <<fs, db, futures, fn_in, fn_out, hist>>

\* break_stream's return: the listing of the directory
BreakList ==
    /\ pc = "list"
    /\ LET ret == break_stream_list(fs, Head(job.files))
       IN  IF ret = {}
           THEN pc' = next_file(job).pc /\ job' = [next_file(job).job EXCEPT !.ret = {}]
           ELSE pc' = "submit" /\ job' = [job EXCEPT !.ret = ret, !.listing = ret]
    /\ UNCHANGED <<fs, db, futures, fn_in, fn_out, hist>>

\* futures.append(executor.submit(worker, substream, stream_name, config, job_begin))
Submit ==
    /\ pc = "submit"
    /\ \E substream \in job.listing :
          LET u == [path |-> substream, stream |-> Head(job.streams), of |-> Head(job.files)]
              j == [job EXCEPT !.listing = @ \ {substream}]
          IN  /\ futures' = [x \in DOMAIN futures \cup {u} |->
                               IF x = u
                               THEN [st |-> "pending", rows |-> <<>>, row_num |-> 0,
                                     checked |-> FALSE, err |-> "none"]
                               ELSE futures[x]]
              /\ IF j.listing = {}
                 THEN pc' = next_file(j).pc /\ job' = next_file(j).job
                 ELSE pc' = pc /\ job' = j
    /\ UNCHANGED <<fs, db, fn_in, fn_out, hist>>

(***************************************************************************)
(* runner.worker and charge_stream: one unit of work of the pool           *)
(***************************************************************************)
\* Querier.run raises when the store rejects the statement
run_raises(accepted) == ~accepted

\* the finally clause is missing: the chunk file stays
worker_finally_skipped(dir, path) == dir

\* finally: stream.unlink(missing_ok=True)
worker_finally(dir, path) == Unlink(dir, path)

\* the unit ends in an exception: the future holds it, the finally clause runs
Fail(u, err) ==
    /\ futures' = [futures EXCEPT ![u].st = "failed", ![u].err = err]
    /\ fs' = worker_finally(fs, u.path)

\* the next row of the chunk
Continue(u) ==
    /\ futures' = [futures EXCEPT ![u].row_num = @ + 1, ![u].checked = FALSE]
    /\ UNCHANGED fs

\* record_code = row[config['record_code'][0] - 1 : config['record_code'][1]]
record_code_of(stream_name, row) ==
    slice(row, Config[stream_name].record_code[1], Config[stream_name].record_code[2])

\* a thread of the pool takes the unit: charge_stream opens the chunk file
WorkerStart(u) ==
    /\ futures[u].st = "pending"
    /\ Cardinality(Running(futures)) < MaxWorkers
    /\ IF u.path \in DOMAIN fs
       THEN /\ futures' = [futures EXCEPT ![u].st = "run", ![u].rows = fs[u.path],
                                          ![u].row_num = 1]
            /\ UNCHANGED fs
       ELSE Fail(u, "FileNotFoundError")
    /\ UNCHANGED <<db, pc, job, fn_in, fn_out, hist>>

\* charge_stream, one row up to the duplicate check (charger.py:155-166)
WorkerRow(u) ==
    /\ futures[u].st = "run"
    /\ ~futures[u].checked
    /\ futures[u].row_num <= Len(futures[u].rows)
    /\ LET row         == futures[u].rows[futures[u].row_num]
           record_code == record_code_of(u.stream, row)
           record      == decode_record(row, layout_of(u.stream, record_code))
           table_name  == table_name_of(u.stream, record_code)
       IN  IF record.kind = "ValueError" THEN Fail(u, "ValueError")
           ELSE IF record.kind = "None" THEN Continue(u)
           ELSE IF ~charge_index_ok(u.path) THEN Fail(u, "ValueError")
           ELSE IF run_raises(table_exists(db, table_name)) THEN Fail(u, "StoreError")
           ELSE IF chk_duplicate(db, table_name, charge_filename(u.path),
                                 charge_row_number(u.path, futures[u].row_num, RowsBreak))
           THEN Continue(u)
           ELSE futures' = [futures EXCEPT ![u].checked = TRUE] /\ UNCHANGED fs
    /\ UNCHANGED <<db, pc, job, fn_in, fn_out, hist>>

\* charge_stream, the insert of the row that passed the check (charger.py:168-179)
WorkerInsert(u) ==
    /\ futures[u].st = "run"
    /\ futures[u].checked
    /\ LET row         == futures[u].rows[futures[u].row_num]
           record_code == record_code_of(u.stream, row)
           record      == decode_record(row, layout_of(u.stream, record_code))
           table_name  == table_name_of(u.stream, record_code)
           filename    == charge_filename(u.path)
           row_number  == charge_row_number(u.path, futures[u].row_num, RowsBreak)
           columns     == record.keys \o <<<<"sys_filename">>, <<"sys_row_number">>, <<"sys_ins_date">>>>
       IN  IF run_raises(insert_ok(db, table_name, columns, filename, row_number))
           THEN /\ Fail(u, IF table_exists(db, table_name)
                              /\ ~uq_filename_row_number(db[table_name].rows, filename, row_number)
                           THEN "UniqueViolation" ELSE "StoreError")
                /\ UNCHANGED db
           ELSE /\ db' = insert_row(db, table_name, filename, row_number)
                /\ Continue(u)
    /\ hist' = [hist EXCEPT !.inserted = TRUE]
    /\ UNCHANGED <<pc, job, fn_in, fn_out>>

\* the chunk is read to its end: charge_stream returns, the finally clause runs
WorkerFinish(u) ==
    /\ futures[u].st = "run"
    /\ ~futures[u].checked
    /\ futures[u].row_num > Len(futures[u].rows)
    /\ futures' = [futures EXCEPT ![u].st = "done"]
    /\ fs' = worker_finally(fs, u.path)
    /\ UNCHANGED <<db, pc, job, fn_in, fn_out, hist>>

\* the executor is left without waiting for its threads
executor_exit_nowait(futs) == TRUE

\* the end of the with-block: ThreadPoolExecutor.__exit__ waits for every unit
executor_exit(futs) == \A u \in DOMAIN futs : futs[u].st \in Finished

\* for future in futures: future.result() meets no exception; runner returns
RunnerReturn ==
    /\ pc = "wait"
    /\ ~job.exc
    /\ \A u \in DOMAIN futures : futures[u].st = "done"
    /\ executor_exit(futures)
    /\ pc' = "returned"
    /\ UNCHANGED <<fs, db, job, futures, fn_in, fn_out, hist>>

\* an exception of the loop, or the one future.result() re-raises, leaves
\* runner once the executor has been left
RunnerRaise ==
    /\ pc = "wait"
    /\ job.exc \/ \E u \in DOMAIN futures : futures[u].st = "failed"
    /\ executor_exit(futures)
    /\ pc' = "raised"
    /\ UNCHANGED <<fs, db, job, futures, fn_in, fn_out, hist>>

Init ==
    /\ fs \in Directories
    /\ db = <<>>
    /\ pc = "idle"
    /\ job = <<>>
    /\ futures = <<>>
    /\ fn_in = <<>>
    /\ fn_out = <<>>
    /\ hist = [run |-> 0, created |-> {}, synced |-> {}, inserted |-> FALSE,
               start |-> [fs |-> <<>>, db |-> <<>>], first |-> <<>>]

Worker ==
    \E u \in DOMAIN futures :
        WorkerStart(u) \/ WorkerRow(u) \/ WorkerInsert(u) \/ WorkerFinish(u)

Next ==
    \/ StartRun
    \/ CheckTable
    \/ BreakWrite
    \/ BreakMissing
    \/ BreakList
    \/ Submit
    \/ Worker
    \/ RunnerReturn
    \/ RunnerRaise

Spec == Init /\ [][Next]_vars

(***************************************************************************)
(* C1: in every reachable state, after any sequence of runs and with       *)
(* workers racing on the same chunk, no table holds two rows with the same *)
(* (source file name, original row number) pair.                           *)
(***************************************************************************)
NoDuplicateRow ==
    \A t \in DOMAIN db : \A key \in DOMAIN db[t].rows : db[t].rows[key] <= 1

\* the store has rejected an insert of a key that a racing worker had stored
NoDuplicateRowWitness ==
    /\ \E u \in DOMAIN futures : futures[u].err = "UniqueViolation"
    /\ \E t \in DOMAIN db : DOMAIN db[t].rows # {}

\* the input files are those of the first run, with the same content
Unmodified(dir) ==
    /\ InputFiles(dir) = InputFiles(hist.first)
    /\ \A f \in InputFiles(dir) : dir[f] = hist.first[f]

ChunkDeletedAtEnd ==
    /\ [][\A u \in DOMAIN futures :
             (u \in DOMAIN futures' /\ futures[u].st \notin Finished
                                    /\ futures'[u].st \in Finished)
                 => u.path \notin DOMAIN fs']_vars
    /\ [](pc \in {"returned", "raised"} => \A u \in DOMAIN futures : u.path \notin DOMAIN fs)

\* runner has raised after a unit ended in a decode error and another in success
ChunkDeletedAtEndWitness ==
    /\ pc = "raised"
    /\ \E u \in DOMAIN futures : futures[u].err = "ValueError" /\ futures[u].row_num > 1
    /\ \E u \in DOMAIN futures : futures[u].st = "done"

(***************************************************************************)
(* C5: check_stream of a stream has completed before any chunk of that     *)
(* stream is submitted, and while check_stream of a stream runs no unit of *)
(* work of that stream exists.                                             *)
(***************************************************************************)
SyncBeforeSubmit ==
    /\ \A u \in DOMAIN futures : u.stream \in hist.synced
    /\ pc = "check" => \A u \in DOMAIN futures : u.stream # Head(job.streams)

\* check_stream of the second stream runs while a worker ingests the first
SyncBeforeSubmitWitness ==
    /\ pc = "check"
    /\ \E u \in DOMAIN futures : futures[u].st = "run" /\ u.stream \in hist.synced

(***************************************************************************)
(* C6: when a unit of work fails, every other submitted unit still runs to *)
(* its end, runner raises only after every unit has finished, and a run    *)
(* with a failed unit never returns normally.                              *)
(***************************************************************************)
FailureAfterAllFinished ==
    /\ pc \in {"returned", "raised"} => \A u \in DOMAIN futures : futures[u].st \in Finished
    /\ pc = "returned" => \A u \in DOMAIN futures : futures[u].st = "done"
    /\ \A u \in DOMAIN futures :
          /\ futures[u].st = "done" => futures[u].row_num > Len(futures[u].rows)
          /\ futures[u].st = "failed" => futures[u].err # "none"

\* runner has raised; a unit failed and another one ran to its end and stored rows
FailureAfterAllFinishedWitness ==
    /\ pc = "raised"
    /\ \E u \in DOMAIN futures : futures[u].st = "failed"
    /\ \E u \in DOMAIN futures : futures[u].st = "done" /\ Len(futures[u].rows) > 0
    /\ hist.inserted

(***************************************************************************)
(* C7: a worker whose insert the store rejects on the uniqueness           *)
(* constraint, after it and a racing worker both passed the duplicate      *)
(* check, treats the row as already ingested: its unit does not fail.      *)
(***************************************************************************)
RejectedInsertRecovered ==
    \A u \in DOMAIN futures : ~(futures[u].st = "failed" /\ futures[u].err = "UniqueViolation")

(***************************************************************************)
(* C8: within one run every chunk file is submitted to the pool exactly    *)
(* once, so no two units of work read the same chunk file.                 *)
(***************************************************************************)
ChunkSubmittedOnce ==
    \A u1, u2 \in DOMAIN futures : u1.path = u2.path => u1 = u2

(***************************************************************************)
(* C9: break_stream(file) returns exactly the chunk files that this call   *)
(* created, and no other file of the directory.                            *)
(***************************************************************************)
ReturnsOwnChunks ==
    pc = "submit" => job.ret = hist.created

(***************************************************************************)
(* SpecSync: check_stream called again and again for one record code of    *)
(* one stream, each time with a layout of its own, and between the calls   *)
(* the insert charge_stream makes of a row decoded with the layout.        *)
(***************************************************************************)
\* field names: one that define_record_name leaves as it is, one it folds to
\* lower case, and one it strips to "n"
SyncKeys == {<<"n">>, <<"N">>, <<"_", "n">>}

\* the layouts of record code A: one field of width 10 or 20, a string or an
\* integer, and a layout that has a second field
SyncLayouts ==
    {<<Field(k, 1, w, t, NoFormat)>> : k \in SyncKeys, w \in {10, 20}, t \in {"string", "integer"}}
        \cup {<<Field(<<"n">>, 1, 10, "string", NoFormat),
                Field(<<"m">>, 11, 12, "<absent>", NoFormat)>>}

\* the row that is inserted: twenty digits
SyncRow == [i \in 1..20 |-> IF i = 20 THEN "1" ELSE "0"]

SyncTableName == table_name_of(StreamS, <<"A">>)

InitSync ==
    /\ db = <<>>
    /\ pc = "start"
    /\ fn_in = [layout |-> <<>>, before |-> <<>>, prev |-> <<>>, prev_ok |-> FALSE]
    /\ fn_out = [ok |-> FALSE, ddl |-> <<>>, columns |-> <<>>, accepted |-> FALSE]
    /\ hist = [syncs |-> 0]
    /\ fs = <<>>
    /\ job = <<>>
    /\ futures = <<>>

\* check_stream(stream_name, {'A': layout}); the statements a call that raises
\* has issued stay in force (save_changes=True)
Sync ==
    /\ hist.syncs < MaxSyncs
    /\ \E layout \in SyncLayouts :
          LET r == check_table(db, StreamS, <<"A">>, layout)
          IN  /\ db' = r.store
              /\ fn_in' = [layout |-> layout, before |-> db,
                           prev |-> fn_in.layout, prev_ok |-> fn_out.ok]
              /\ fn_out' = [ok |-> r.ok, ddl |-> r.ddl, columns |-> <<>>, accepted |-> FALSE]
    /\ pc' = "synced"
    /\ hist' = [hist EXCEPT !.syncs = @ + 1]
    /\ UNCHANGED <<fs, job, futures>>

\* charge_stream, one row of a chunk <<"f", "#", "0">> after check_stream has
\* returned: the record is decoded with the layout and inserted
\* (charger.py:157-179)
SyncInsert ==
    /\ pc = "synced"
    /\ fn_out.ok
    /\ LET record     == decode_record(SyncRow, fn_in.layout)
           filename   == charge_filename(<<"f", "#", "0">>)
           row_number == charge_row_number(<<"f", "#", "0">>,
                                           row_count(db, SyncTableName) + 1, RowsBreak)
           columns    == record.keys \o <<<<"sys_filename">>, <<"sys_row_number">>, <<"sys_ins_date">>>>
           accepted   == ~run_raises(insert_ok(db, SyncTableName, columns, filename, row_number))
       IN  /\ record.kind = "dict"
           /\ ~chk_duplicate(db, SyncTableName, filename, row_number)
           /\ db' = IF accepted THEN insert_row(db, SyncTableName, filename, row_number) ELSE db
           /\ fn_out' = [fn_out EXCEPT !.columns = columns, !.accepted = accepted]
    /\ pc' = "inserted"
    /\ UNCHANGED <<fs, job, futures, fn_in, hist>>

NextSync == Sync \/ SyncInsert

SpecSync == InitSync /\ [][NextSync]_vars

\* the width a layout field requires of its column
width(field) == field.end - field.begin + 1

(***************************************************************************)
(* C12: over any sequence of calls of check_stream with changing layouts   *)
(* the declared length of a string column never decreases, and after a     *)
(* call whose layout gives the column's field a larger width the declared  *)
(* length is at least that width and at least the previous length.  The    *)
(* column of a field is the one named by the field's normalized name; only *)
(* calls that returned are held to the second part.                        *)
(***************************************************************************)
WideningMonotonic ==
    pc = "synced" =>
        \A t \in DOMAIN fn_in.before :
            /\ \A c \in DOMAIN fn_in.before[t].cols :
                  fn_in.before[t].cols[c].type = "VARCHAR" =>
                      /\ c \in DOMAIN db[t].cols
                      /\ db[t].cols[c].type = "VARCHAR"
                      /\ db[t].cols[c].len >= fn_in.before[t].cols[c].len
            /\ fn_out.ok =>
                  \A i \in 1..Len(fn_in.layout) :
                      LET c == define_record_name(fn_in.layout[i].key)
                      IN  (/\ t = SyncTableName
                           /\ type_of(fn_in.layout[i]) = "string"
                           /\ c \in DOMAIN fn_in.before[t].cols
                           /\ fn_in.before[t].cols[c].type = "VARCHAR"
                           /\ width(fn_in.layout[i]) > fn_in.before[t].cols[c].len)
                          => db[t].cols[c].len >= width(fn_in.layout[i])

(***************************************************************************)
(* C13: check_stream is idempotent: a call that follows a call that        *)
(* returned, for the same table and with the same layout, whatever the     *)
(* names of its fields, issues no statement at all; and a call that finds  *)
(* VARCHAR(10) for a string field of width 20 issues exactly one statement,*)
(* the widening to VARCHAR(20).                                            *)
(***************************************************************************)
SyncIdempotent ==
    pc = "synced" =>
        /\ (fn_in.prev_ok /\ fn_in.prev = fn_in.layout) => fn_out.ddl = <<>>
        /\ (/\ fn_in.layout = <<Field(<<"n">>, 1, 20, "string", NoFormat)>>
            /\ SyncTableName \in DOMAIN fn_in.before
            /\ <<"n">> \in DOMAIN fn_in.before[SyncTableName].cols
            /\ fn_in.before[SyncTableName].cols[<<"n">>] =
                   [type |-> "VARCHAR", len |-> 10, scale |-> 0])
           => fn_out.ddl = <<[op |-> "ALTER", record |-> <<"n">>,
                              type |-> [type |-> "VARCHAR", len |-> 20, scale |-> 0]]>>

(***************************************************************************)
(* C18: every ALTER COLUMN ... TYPE that check_stream issues replaces a    *)
(* VARCHAR(n) column by VARCHAR(m) with m > n, whatever type the layout    *)
(* declares for the field, and never names a column that is not a string.  *)
(***************************************************************************)
AlterOnlyWidens ==
    pc = "synced" =>
        \A i \in 1..Len(fn_out.ddl) :
            fn_out.ddl[i].op = "ALTER" =>
                LET cols == fn_in.before[SyncTableName].cols
                    c    == fn_out.ddl[i].record
                IN  /\ c \in DOMAIN cols
                    /\ cols[c].type = "VARCHAR"
                    /\ fn_out.ddl[i].type.type = "VARCHAR"
                    /\ fn_out.ddl[i].type.len > cols[c].len

(***************************************************************************)
(* C19: every insert a worker executes names exactly the three system      *)
(* columns and the normalized name of each field of the layout, and each   *)
(* column it names exists in the table once check_stream has returned, for *)
(* any field names (a name is read as the store reads it, folded to lower  *)
(* case).                                                                  *)
(***************************************************************************)
InsertNamesColumns ==
    pc = "inserted" =>
        /\ {sql_ident(fn_out.columns[i]) : i \in 1..Len(fn_out.columns)} =
              DOMAIN SysCols \cup
                  {define_record_name(fn_in.layout[i].key) : i \in 1..Len(fn_in.layout)}
        /\ \A i \in 1..Len(fn_out.columns) :
              /\ sql_ident_ok(fn_out.columns[i])
              /\ sql_ident(fn_out.columns[i]) \in DOMAIN db[SyncTableName].cols
        /\ fn_out.accepted

(***************************************************************************)
(* SpecName: define_record_name applied to a raw label, and again to its   *)
(* own result.                                                             *)
(***************************************************************************)
\* the characters raw labels are drawn from: a lower-case and an upper-case
\* letter, a digit, the underscore and a blank
NameAlphabet == {"a", "B", "1", "_", " "}

RECURSIVE Labels(_)
Labels(n) ==
    IF n = 0 THEN {<<>>}
    ELSE Labels(n - 1) \cup {Append(t, c) : t \in Labels(n - 1), c \in NameAlphabet}

InitName ==
    /\ fn_in \in Labels(MaxNameLen)
    /\ fn_out = <<>>
    /\ pc = "name"
    /\ fs = <<>>
    /\ NoRunner

\* name = define_record_name(raw)
Name ==
    /\ pc = "name"
    /\ fn_out' = define_record_name(fn_in)
    /\ pc' = "named"
    /\ UNCHANGED <<fs, db, job, futures, fn_in, hist>>

\* define_record_name(name)
NameAgain ==
    /\ pc = "named"
    /\ fn_in' = fn_out
    /\ fn_out' = define_record_name(fn_out)
    /\ pc' = "renamed"
    /\ UNCHANGED <<fs, db, job, futures, hist>>

NextName == Name \/ NameAgain

SpecName == InitName /\ [][NextName]_vars

(***************************************************************************)
(* C14: for every non-empty raw label s, define_record_name(s) is a        *)
(* non-empty string that matches ^[a-z0-9_]+$ and does not start with a    *)
(* digit.                                                                  *)
(***************************************************************************)
NameIsIdentifier ==
    (pc = "named" /\ Len(fn_in) > 0) =>
        /\ Len(fn_out) > 0
        /\ \A i \in 1..Len(fn_out) : IsLower(fn_out[i]) \/ IsDigit(fn_out[i]) \/ fn_out[i] = "_"
        /\ ~IsDigit(fn_out[1])

(***************************************************************************)
(* C15: define_record_name is idempotent: applied to its own result it     *)
(* returns it unchanged, also for labels that start with a digit and get   *)
(* the prefix 'c_'.                                                        *)
(***************************************************************************)
NameIdempotent ==
    pc = "renamed" => fn_out = fn_in

\* a label that starts with a digit has been prefixed, and named again
NameIdempotentWitness ==
    /\ pc = "renamed"
    /\ Len(fn_out) > 3
    /\ fn_out[1] = "c" /\ fn_out[2] = "_" /\ IsDigit(fn_out[3])
    /\ \E i \in 4..Len(fn_out) : fn_out[i] = "_"

\* the stream whose filename pattern matches input file f
stream_of(f) == CHOOSE s \in DOMAIN Config : f \in Config[s].filename

(***************************************************************************)
(* C16: if runner returns without raising, then for every input file f of  *)
(* every stream and every row at position n of f whose record code has a   *)
(* layout, the table of (stream, record code) holds exactly one row keyed  *)
(* (name of f, n); rows whose record code has no layout are skipped        *)
(* without error and count in the numbering of the rows after them.        *)
(***************************************************************************)
ReturnedRunIngestedAll ==
    pc = "returned" =>
        \A f \in InputFiles(hist.start.fs) :
            \A n \in 1..Len(hist.start.fs[f]) :
                LET row         == hist.start.fs[f][n]
                    record_code == record_code_of(stream_of(f), row)
                    table       == table_name_of(stream_of(f), record_code)
                IN  layout_of(stream_of(f), record_code) # <<>> =>
                        /\ table \in DOMAIN db
                        /\ <<f, n>> \in DOMAIN db[table].rows
                        /\ db[table].rows[<<f, n>>] = 1

\* a first run has returned over a file of two chunks whose second row has no
\* layout: the third row is stored under number 3
ReturnedRunIngestedAllWitness ==
    /\ pc = "returned"
    /\ hist.run = 1
    /\ hist.inserted
    /\ \E f \in InputFiles(hist.start.fs) :
          /\ Len(hist.start.fs[f]) > RowsBreak
          /\ layout_of(stream_of(f), record_code_of(stream_of(f), hist.start.fs[f][2])) = <<>>
          /\ layout_of(stream_of(f), record_code_of(stream_of(f), hist.start.fs[f][3])) # <<>>
          /\ <<f, 3>> \in DOMAIN db[table_name_of(stream_of(f), <<"A">>)].rows

(***************************************************************************)
(* C17: runner deletes and writes only chunk files that break_stream       *)
(* created in this run: when it returns or raises, every file the working  *)
(* directory held when the run began is still there with its content.      *)
(***************************************************************************)
RunKeepsOtherFiles ==
    pc \in {"returned", "raised"} =>
        \A f \in DOMAIN hist.start.fs :
            f \in DOMAIN fs /\ fs[f] = hist.start.fs[f]

====
